---- MODULE Spec2Model ----
(***************************************************************************)
(* Deposit / withdraw flow of firebase-bank-buddy.                         *)
(*                                                                         *)
(* Two front-end implementations mutate the same two tables:               *)
(*   - BankingOperations (handleDepositSubmit / handleWithdrawSubmit ->    *)
(*     handleTransaction), hosted by the Dashboard that owns `profile`     *)
(*     and passes profile.balance as the currentBalance prop;              *)
(*   - pages/Dashboard (handleDeposit / handleWithdraw), which computes    *)
(*     the new balance from its cached profile.balance.                    *)
(* The Profile page edits account_type in the same profiles table; its     *)
(* save is one round trip, taken together with the code that follows it.   *)
(* The history lists of the pages are read-only views of the transactions  *)
(* table; their fetches are specified on their own in SpecHistory, the     *)
(* description field of BankingOperations in SpecMemo.                     *)
(* Every supabase call is one round trip; the step that performs a call    *)
(* also runs the handler's synchronous code up to the next await.          *)
(* Money is counted in whole currency units.                               *)
(***************************************************************************)
EXTENDS Integers, Sequences, FiniteSets, TLC

\* ---------------------------------------------------------------- bounds
MaxOps == 2            \* handler invocations in one behaviour
MaxRows == 11          \* rows of public.transactions a history read finds

\* ------------------------------------------------------------ parameters
Users == {"u1", "u2"}
Sessions == {"s1", "s2"}
Components == {"BankingOperations", "PagesDashboard", "Profile"}
InitialBalances == {0, 1}             \* initial_balance meta data
AmountInputs == {"", "-1", "0", "1"}  \* text of the amount field
MemoInputs == {"", "rent"}            \* text of the description field
AccountTypeInputs == {"savings", "current", "fixed"}  \* the form's options

\* The pages that show a list of transactions: both dashboards (the host of
\* BankingOperations mounts TransactionHistory) and the Transactions page.
HistoryPages == {"BankingOperations", "PagesDashboard", "Transactions"}

\* .limit(10) of the two dashboard lists.
HistoryLimit == 10

\* Who signs in on a session: s1 is a browser of u1, s2 a browser of either.
SignIns(s) == IF s = "s1" THEN {"u1"} ELSE Users

\* The initial_balance a user signs up with: u1 with either value, u2 with
\* the default 0.00.
SignUps(u) == IF u = "u1" THEN InitialBalances ELSE {0}

\* The page a session opens: s1 one of the two dashboards, s2 any page.
Mounts(s) == IF s = "s1" THEN Components \ {"Profile"} ELSE Components

\* The value parseFloat yields for text that is not a number.
NaN == -99

\* parseFloat on the amount field's text.
parseFloat(str) ==
  CASE str = "-1" -> -1
    [] str = "0"  -> 0
    [] str = "1"  -> 1
    [] OTHER      -> NaN

\* JavaScript number arithmetic and comparison in the presence of NaN.
JsAdd(a, b) == IF a = NaN \/ b = NaN THEN NaN ELSE a + b
JsSub(a, b) == IF a = NaN \/ b = NaN THEN NaN ELSE a - b
JsLt(a, b) == a # NaN /\ b # NaN /\ a < b
JsLe(a, b) == a # NaN /\ b # NaN /\ a <= b
JsGt(a, b) == a # NaN /\ b # NaN /\ a > b

VARIABLES
  profiles,      \* table public.profiles: user_id -> [balance, account_type]
  transactions,  \* table public.transactions, in creation order
  user,          \* per session: the signed-in user id, or "null"
  component,     \* per session: which dashboard implementation is mounted
  profile,       \* per session: the component's cached profile state
  fetching,      \* per session: a fetchProfile round trip is outstanding
  isLoading,     \* per session: isLoading / isProcessing flag
  pc,            \* per session: the await the running handler is parked at
  op,            \* per session: locals of the running handler
  isEditing,     \* per session: the Profile page is in edit mode
  view,          \* per session: the `transactions` list state of the page
  saved,         \* the toast of the handleSaveProfile the latest step ran, if any
  signOut,       \* what the handleSignOut the latest step ran did, if any
  last,          \* history: the invocation the latest step finished, if any
  started,       \* history: number of handler invocations so far
  succeeded,     \* history: per user, invocations that reported success
  credited,      \* history: per user, sum of their signed amounts
  initial,       \* history: balance each profile row was created with
  overlap        \* history: some invocation started while another was running

vars == <<profiles, transactions, user, component, profile, fetching,
          isLoading, pc, op, isEditing, view, saved, signOut, last, started,
          succeeded, credited, initial, overlap>>

hist == <<started, succeeded, credited, initial, overlap>>

NoProfile == [loaded |-> FALSE, balance |-> 0, account_type |-> ""]
NoOp == [entry |-> "none", type |-> "none", amount |-> 0, description |-> "",
         newBalance |-> 0,
         sess |-> "none", owner |-> "null", atRequest |-> 0,
         reads |-> 0, writes |-> 0, inserts |-> 0,
         written |-> FALSE, inserted |-> FALSE, outcome |-> "running",
         account |-> FALSE, readBalance |-> 0, failed |-> FALSE]

\* createClient / first render: empty tables, nobody signed in.
Init ==
  /\ profiles = <<>>
  /\ transactions = <<>>
  /\ user = [s \in Sessions |-> "null"]
  /\ component = [s \in Sessions |-> "none"]
  /\ profile = [s \in Sessions |-> NoProfile]
  /\ fetching = [s \in Sessions |-> FALSE]
  /\ isLoading = [s \in Sessions |-> FALSE]
  /\ pc = [s \in Sessions |-> "idle"]
  /\ op = [s \in Sessions |-> NoOp]
  /\ isEditing = [s \in Sessions |-> FALSE]
  /\ view = [s \in Sessions |-> <<>>]
  /\ saved = "none"
  /\ signOut = "none"
  /\ last = NoOp
  /\ started = 0
  /\ succeeded = [u \in Users |-> 0]
  /\ credited = [u \in Users |-> 0]
  /\ initial = <<>>
  /\ overlap = FALSE

\* ------------------------------------------------------------ the store

\* UPDATE profiles SET balance = v WHERE user_id = u: a row that does not
\* exist is not an error, the statement then changes nothing.
UpdateBalance(tbl, u, v) ==
  IF u \in DOMAIN tbl THEN [tbl EXCEPT ![u].balance = v] ELSE tbl

\* UPDATE profiles SET account_type = v WHERE user_id = u (name and phone,
\* free text that no handler reads back, are not represented).
UpdateAccountType(tbl, u, v) ==
  IF u \in DOMAIN tbl THEN [tbl EXCEPT ![u].account_type = v] ELSE tbl

\* The CHECK constraint widened by the third option of the form.
AccountTypeAccepted_Fixed(v) == v \in {"savings", "current", "fixed"}

\* account_type TEXT NOT NULL CHECK (account_type IN ('savings', 'current')).
AccountTypeAccepted(v) == v \in {"savings", "current"}

\* A step outside the Profile page and the history lists: edit mode and
\* the lists stay, no save toast.
NoSave ==
  /\ isEditing' = isEditing
  /\ view' = view
  /\ saved' = "none"
  /\ signOut' = "none"

\* balance DECIMAL(12,2) NOT NULL: NaN travels as JSON null and is refused.
BalanceAccepted(v) == v # NaN

\* amount / balance_after DECIMAL(12,2) NOT NULL, transaction_type CHECK.
RecordAccepted(r) ==
  /\ r.amount # NaN
  /\ r.balance_after # NaN
  /\ r.transaction_type \in {"deposit", "withdraw"}

\* An insert that replaces the user's newest row instead of adding one.
InsertRow_Upsert(tbl, r) ==
  IF \E i \in DOMAIN tbl : tbl[i].user_id = r.user_id
  THEN LET k == CHOOSE i \in DOMAIN tbl :
                  /\ tbl[i].user_id = r.user_id
                  /\ \A j \in DOMAIN tbl : tbl[j].user_id = r.user_id => j <= i
       IN [tbl EXCEPT ![k] = [created_at |-> tbl[k].created_at] @@ r]
  ELSE Append(tbl, [created_at |-> Len(tbl) + 1] @@ r)

\* INSERT INTO transactions: the row gets a fresh id and created_at = now(),
\* later than that of every row the table holds (time is counted in
\* inserts).
InsertRow(tbl, r) == Append(tbl, [created_at |-> Len(tbl) + 1] @@ r)

\* Trigger on_auth_user_created: a sign-up inserts the profile row with the
\* initial_balance of the meta data (0.00 when absent) and the account_type
\* of the meta data (here always the default 'savings'); no transaction row.
handle_new_user(u, initial_balance) ==
  /\ u \notin DOMAIN profiles
  /\ profiles' = profiles @@ (u :> [balance |-> initial_balance,
                                    account_type |-> "savings"])
  /\ initial' = initial @@ (u :> initial_balance)
  /\ last' = NoOp
  /\ NoSave
  /\ UNCHANGED <<transactions, user, component, profile, fetching,
                 isLoading, pc, op, started, succeeded, credited, overlap>>

\* ------------------------------------------------- mounting and profile

\* useEffect on [user]: once the auth provider delivers a signed-in user the
\* mounted dashboard starts fetchProfile.
useEffect_user(s, u, c) ==
  /\ user[s] = "null"
  /\ u \in DOMAIN profiles
  /\ user' = [user EXCEPT ![s] = u]
  /\ component' = [component EXCEPT ![s] = c]
  /\ fetching' = [fetching EXCEPT ![s] = TRUE]
  /\ last' = NoOp
  /\ NoSave
  /\ UNCHANGED <<profiles, transactions, profile, isLoading, pc, op, hist>>

\* fetchProfile: select('*').eq('user_id', user.id).single(); on error the
\* cached profile is left as it is.
fetchProfile(s, ok) ==
  /\ fetching[s]
  /\ fetching' = [fetching EXCEPT ![s] = FALSE]
  /\ profile' = IF ok /\ user[s] \in DOMAIN profiles
                THEN [profile EXCEPT ![s] =
                        [loaded |-> TRUE, balance |-> profiles[user[s]].balance,
                         account_type |-> profiles[user[s]].account_type]]
                ELSE profile
  /\ last' = NoOp
  /\ NoSave
  /\ UNCHANGED <<profiles, transactions, user, component, isLoading, pc, op,
                 hist>>

\* "Retry" on the failed-profile page: window.location.reload() mounts the
\* dashboard again, which fetches the profile again.
Retry(s) ==
  /\ component[s] = "BankingOperations"
  /\ user[s] # "null"
  /\ ~profile[s].loaded
  /\ ~fetching[s]
  /\ fetching' = [fetching EXCEPT ![s] = TRUE]
  /\ last' = NoOp
  /\ NoSave
  /\ UNCHANGED <<profiles, transactions, user, component, profile, isLoading,
                 pc, op, hist>>

\* handleSignOut with navigate('/auth') outside the else branch: the page is
\* left whatever supabase.auth.signOut() returned.
handleSignOut_AlwaysNavigate(s, ok) ==
  /\ user[s] # "null"
  /\ component[s] # "none"
  /\ pc[s] = "idle"
  /\ user' = IF ok THEN [user EXCEPT ![s] = "null"] ELSE user
  /\ signOut' = IF ok THEN "navigated" ELSE "error"
  /\ component' = [component EXCEPT ![s] = "none"]
  /\ profile' = [profile EXCEPT ![s] = NoProfile]
  /\ fetching' = [fetching EXCEPT ![s] = FALSE]
  /\ isEditing' = [isEditing EXCEPT ![s] = FALSE]
  /\ view' = [view EXCEPT ![s] = <<>>]
  /\ saved' = "none"
  /\ last' = NoOp
  /\ UNCHANGED <<profiles, transactions, isLoading, pc, op, hist>>

\* handleSignOut of the navigation bar and of the dashboard, taken while no
\* deposit or withdraw of the page is running: supabase.auth.signOut(); on
\* an error the Error toast and nothing else, the session is kept; otherwise
\* the session is gone and navigate('/auth') unmounts the page with its
\* state. handleLogout of pages/Dashboard goes the same way, the page
\* rendering <Navigate to="/auth"> once the user is gone.
handleSignOut(s, ok) ==
  /\ user[s] # "null"
  /\ component[s] # "none"
  /\ pc[s] = "idle"
  /\ IF ok
     THEN /\ user' = [user EXCEPT ![s] = "null"]
          /\ signOut' = "navigated"
          /\ component' = [component EXCEPT ![s] = "none"]
          /\ profile' = [profile EXCEPT ![s] = NoProfile]
          /\ fetching' = [fetching EXCEPT ![s] = FALSE]
          /\ isEditing' = [isEditing EXCEPT ![s] = FALSE]
          /\ view' = [view EXCEPT ![s] = <<>>]
     ELSE /\ signOut' = "error"
          /\ UNCHANGED <<user, component, profile, fetching, isEditing, view>>
  /\ saved' = "none"
  /\ last' = NoOp
  /\ UNCHANGED <<profiles, transactions, isLoading, pc, op, hist>>

\* ------------------------------------------------ handler bookkeeping

\* A submit button that is never disabled.
CanSubmit_NoFlag(s, c) ==
  /\ component[s] = c
  /\ user[s] # "null"
  /\ started < MaxOps

\* A submit can start a handler: the submit button is disabled while the
\* processing flag is set.
CanSubmit(s, c) ==
  /\ component[s] = c
  /\ user[s] # "null"
  /\ ~isLoading[s]
  /\ started < MaxOps

NewOp(s, entry, type, amount, description) ==
  [NoOp EXCEPT !.entry = entry, !.type = type, !.amount = amount,
               !.description = description,
               !.sess = s, !.owner = user[s],
               !.account = (user[s] # "null" /\ profile[s].loaded),
               !.atRequest = IF user[s] \in DOMAIN profiles
                             THEN profiles[user[s]].balance ELSE 0]

\* +amount for a deposit, -amount for a withdraw.
Signed(type, amount) == IF type = "deposit" THEN amount ELSE 0 - amount

\* The handler reaches an await: it is parked at `at` with locals o.
Park(s, o, at, loading) ==
  /\ pc' = [pc EXCEPT ![s] = at]
  /\ op' = [op EXCEPT ![s] = o]
  /\ isLoading' = [isLoading EXCEPT ![s] = loading]
  /\ last' = NoOp
  /\ NoSave
  /\ started' = IF pc[s] = "idle" THEN started + 1 ELSE started
  /\ overlap' = (overlap \/ \E t \in Sessions \ {s} :
                              pc[t] # "idle" /\ op[t].owner = o.owner)
  /\ UNCHANGED <<succeeded, credited>>

\* The handler returns with the given outcome (the toast it showed).
Return(s, o, outcome, loading) ==
  /\ pc' = [pc EXCEPT ![s] = "idle"]
  /\ op' = [op EXCEPT ![s] = NoOp]
  /\ isLoading' = [isLoading EXCEPT ![s] = loading]
  /\ last' = [o EXCEPT !.outcome = outcome]
  /\ NoSave
  /\ started' = IF pc[s] = "idle" THEN started + 1 ELSE started
  /\ succeeded' = IF outcome = "success"
                  THEN [succeeded EXCEPT ![o.owner] = @ + 1] ELSE succeeded
  /\ credited' = IF outcome = "success"
                 THEN [credited EXCEPT ![o.owner] = @ + Signed(o.type, o.amount)]
                 ELSE credited
  /\ overlap' = overlap

\* ------------------------------------------------- BankingOperations

\* handleTransaction up to its first await: the guard on user, the balance
\* computed from the currentBalance prop and the first funds check.
handleTransaction(s, o, currentBalance) ==
  IF user[s] = "null"
  THEN Return(s, o, "none", isLoading[s])
  ELSE LET newBalance == IF o.type = "deposit"
                         THEN JsAdd(currentBalance, o.amount)
                         ELSE JsSub(currentBalance, o.amount)
       IN IF o.type = "withdraw" /\ JsLt(newBalance, 0)
          THEN Return(s, o, "insufficient", FALSE)
          ELSE Park(s, o, "select", TRUE)

handleDepositSubmit(s, str, description) ==
  /\ CanSubmit(s, "BankingOperations")
  /\ profile[s].loaded
  /\ LET amount == parseFloat(str)
         o == NewOp(s, "handleDepositSubmit", "deposit", amount, description)
     IN IF JsLe(amount, 0)
        THEN Return(s, o, "invalid", isLoading[s])
        ELSE handleTransaction(s, o, profile[s].balance)
  /\ UNCHANGED <<profiles, transactions, user, component, profile, fetching,
                 initial>>

handleWithdrawSubmit(s, str, description) ==
  /\ CanSubmit(s, "BankingOperations")
  /\ profile[s].loaded
  /\ LET amount == parseFloat(str)
         o == NewOp(s, "handleWithdrawSubmit", "withdraw", amount,
                    description)
     IN IF JsLe(amount, 0)
        THEN Return(s, o, "invalid", isLoading[s])
        ELSE IF JsGt(amount, profile[s].balance)
        THEN Return(s, o, "insufficient", isLoading[s])
        ELSE handleTransaction(s, o, profile[s].balance)
  /\ UNCHANGED <<profiles, transactions, user, component, profile, fetching,
                 initial>>

\* handleTransaction with the balance written before the second funds check
\* instead of after it.
handleTransaction_select_WriteFirst(s, ok) ==
  /\ pc[s] = "select"
  /\ LET o == [op[s] EXCEPT !.reads = @ + 1]
     IN IF ~ok \/ o.owner \notin DOMAIN profiles
        THEN /\ profiles' = profiles
             /\ Return(s, o, "error", FALSE)
        ELSE LET balance == profiles[o.owner].balance
                 updatedBalance == IF o.type = "deposit"
                                   THEN JsAdd(balance, o.amount)
                                   ELSE JsSub(balance, o.amount)
                 w == [o EXCEPT !.newBalance = updatedBalance,
                                !.writes = @ + 1, !.written = TRUE]
             IN IF ~BalanceAccepted(updatedBalance)
                THEN /\ profiles' = profiles
                     /\ Return(s, w, "error", FALSE)
                ELSE /\ profiles' = UpdateBalance(profiles, o.owner, updatedBalance)
                     /\ IF o.type = "withdraw" /\ JsLt(updatedBalance, 0)
                        THEN Return(s, w, "insufficient", FALSE)
                        ELSE Park(s, w, "insert", TRUE)
  /\ UNCHANGED <<transactions, user, component, profile, fetching, initial>>

\* handleTransaction, the balance read: select('balance').single(), then the
\* balance computed from the row and the second funds check.
handleTransaction_select(s, ok) ==
  /\ pc[s] = "select"
  /\ LET o == [op[s] EXCEPT !.reads = @ + 1]
     IN IF ~ok \/ o.owner \notin DOMAIN profiles
        THEN Return(s, [o EXCEPT !.failed = TRUE], "error", FALSE)
        ELSE LET balance == profiles[o.owner].balance
                 updatedBalance == IF o.type = "deposit"
                                   THEN JsAdd(balance, o.amount)
                                   ELSE JsSub(balance, o.amount)
                 r == [o EXCEPT !.readBalance = balance]
             IN IF o.type = "withdraw" /\ JsLt(updatedBalance, 0)
                THEN Return(s, r, "insufficient", FALSE)
                ELSE Park(s, [r EXCEPT !.newBalance = updatedBalance],
                          "update", TRUE)
  /\ UNCHANGED <<profiles, transactions, user, component, profile, fetching,
                 initial>>

\* handleTransaction with the update error not thrown: the log insert follows
\* whatever the balance write returned.
handleTransaction_update_NoThrow(s, ok) ==
  /\ pc[s] = "update"
  /\ op[s].entry \in {"handleDepositSubmit", "handleWithdrawSubmit"}
  /\ LET o == [op[s] EXCEPT !.writes = @ + 1]
         good == ok /\ BalanceAccepted(o.newBalance)
     IN /\ profiles' = IF good
                       THEN UpdateBalance(profiles, o.owner, o.newBalance)
                       ELSE profiles
        /\ Park(s, [o EXCEPT !.written = good /\ o.owner \in DOMAIN profiles,
                              !.failed = ~good],
                "insert", TRUE)
  /\ UNCHANGED <<transactions, user, component, profile, fetching, initial>>

\* handleTransaction, the balance write: update({balance: updatedBalance}).
handleTransaction_update(s, ok) ==
  /\ pc[s] = "update"
  /\ op[s].entry \in {"handleDepositSubmit", "handleWithdrawSubmit"}
  /\ LET o == [op[s] EXCEPT !.writes = @ + 1]
     IN IF ok /\ BalanceAccepted(o.newBalance)
        THEN /\ profiles' = UpdateBalance(profiles, o.owner, o.newBalance)
             /\ Park(s, [o EXCEPT !.written = o.owner \in DOMAIN profiles],
                     "insert", TRUE)
        ELSE /\ profiles' = profiles
             /\ Return(s, [o EXCEPT !.failed = TRUE], "error", FALSE)
  /\ UNCHANGED <<transactions, user, component, profile, fetching, initial>>

\* The description of the inserted row: handleTransaction stores
\* `description || "Deposit transaction" / "Withdrawal transaction"`,
\* pages/Dashboard the literal 'Account Deposit' / 'Account Withdrawal'.
Description(o) ==
  IF o.entry \in {"handleDeposit", "handleWithdraw"}
  THEN IF o.type = "deposit" THEN "Account Deposit" ELSE "Account Withdrawal"
  ELSE IF o.description # "" THEN o.description
  ELSE IF o.type = "deposit" THEN "Deposit transaction"
  ELSE "Withdrawal transaction"

\* The row a handler inserts into public.transactions.
Record(o) ==
  [user_id |-> o.owner, amount |-> o.amount, transaction_type |-> o.type,
   balance_after |-> o.newBalance, description |-> Description(o)]

\* handleTransaction with the insert error not thrown: the success toast and
\* onBalanceUpdate() run whatever the insert returned.
handleTransaction_insert_NoThrow(s, ok) ==
  /\ pc[s] = "insert"
  /\ op[s].entry \in {"handleDepositSubmit", "handleWithdrawSubmit"}
  /\ LET o == [op[s] EXCEPT !.inserts = @ + 1]
         good == ok /\ RecordAccepted(Record(o))
     IN /\ transactions' = IF good THEN InsertRow(transactions, Record(o))
                           ELSE transactions
        /\ fetching' = [fetching EXCEPT ![s] = TRUE]
        /\ Return(s, [o EXCEPT !.inserted = good, !.failed = ~good],
                  "success", FALSE)
  /\ UNCHANGED <<profiles, user, component, profile, initial>>

\* handleTransaction, the log insert, the success toast, onBalanceUpdate()
\* (the host's fetchProfile, not awaited) and the finally block.
handleTransaction_insert(s, ok) ==
  /\ pc[s] = "insert"
  /\ op[s].entry \in {"handleDepositSubmit", "handleWithdrawSubmit"}
  /\ LET o == [op[s] EXCEPT !.inserts = @ + 1]
     IN IF ok /\ RecordAccepted(Record(o))
        THEN /\ transactions' = InsertRow(transactions, Record(o))
             /\ fetching' = [fetching EXCEPT ![s] = TRUE]
             /\ Return(s, [o EXCEPT !.inserted = TRUE], "success", FALSE)
        ELSE /\ transactions' = transactions
             /\ fetching' = fetching
             /\ Return(s, [o EXCEPT !.failed = TRUE], "error", FALSE)
  /\ UNCHANGED <<profiles, user, component, profile, initial>>

\* ---------------------------------------------------- pages/Dashboard

\* handleDeposit up to its first await: no read of the store, the new
\* balance is the cached profile.balance plus the parsed amount.
handleDeposit(s, str) ==
  /\ CanSubmit(s, "PagesDashboard")
  /\ LET amount == parseFloat(str)
         o == NewOp(s, "handleDeposit", "deposit", amount, "")
     IN IF ~profile[s].loaded \/ str = ""
        THEN Return(s, o, "none", isLoading[s])
        ELSE Park(s, [o EXCEPT !.newBalance = JsAdd(profile[s].balance, amount)],
                  "update", TRUE)
  /\ UNCHANGED <<profiles, transactions, user, component, profile, fetching,
                 initial>>

\* handleWithdraw up to its first await: the funds check and the new
\* balance both use the cached profile.balance.
handleWithdraw(s, str) ==
  /\ CanSubmit(s, "PagesDashboard")
  /\ LET amount == parseFloat(str)
         o == NewOp(s, "handleWithdraw", "withdraw", amount, "")
     IN IF ~profile[s].loaded \/ str = ""
        THEN Return(s, o, "none", isLoading[s])
        ELSE IF JsGt(amount, profile[s].balance)
        THEN Return(s, o, "insufficient", isLoading[s])
        ELSE Park(s, [o EXCEPT !.newBalance = JsSub(profile[s].balance, amount)],
                  "update", TRUE)
  /\ UNCHANGED <<profiles, transactions, user, component, profile, fetching,
                 initial>>

\* The balance write of handleDeposit / handleWithdraw without the finally
\* block: a failed write leaves the processing flag set.
Dashboard_update_NoFinally(s, ok) ==
  /\ pc[s] = "update"
  /\ op[s].entry \in {"handleDeposit", "handleWithdraw"}
  /\ LET o == [op[s] EXCEPT !.writes = @ + 1]
     IN IF ok /\ BalanceAccepted(o.newBalance)
        THEN /\ profiles' = UpdateBalance(profiles, o.owner, o.newBalance)
             /\ Park(s, [o EXCEPT !.written = o.owner \in DOMAIN profiles],
                     "insert", TRUE)
        ELSE /\ profiles' = profiles
             /\ Return(s, [o EXCEPT !.failed = TRUE], "error", TRUE)
  /\ UNCHANGED <<transactions, user, component, profile, fetching, initial>>

\* handleDeposit / handleWithdraw, the balance write.
Dashboard_update(s, ok) ==
  /\ pc[s] = "update"
  /\ op[s].entry \in {"handleDeposit", "handleWithdraw"}
  /\ LET o == [op[s] EXCEPT !.writes = @ + 1]
     IN IF ok /\ BalanceAccepted(o.newBalance)
        THEN /\ profiles' = UpdateBalance(profiles, o.owner, o.newBalance)
             /\ Park(s, [o EXCEPT !.written = o.owner \in DOMAIN profiles],
                     "insert", TRUE)
        ELSE /\ profiles' = profiles
             /\ Return(s, [o EXCEPT !.failed = TRUE], "error", FALSE)
  /\ UNCHANGED <<transactions, user, component, profile, fetching, initial>>

\* handleDeposit / handleWithdraw, the log insert, then setProfile with the
\* new balance, the success toast and the finally block.
Dashboard_insert(s, ok) ==
  /\ pc[s] = "insert"
  /\ op[s].entry \in {"handleDeposit", "handleWithdraw"}
  /\ LET o == [op[s] EXCEPT !.inserts = @ + 1]
     IN IF ok /\ RecordAccepted(Record(o))
        THEN /\ transactions' = InsertRow(transactions, Record(o))
             /\ profile' = [profile EXCEPT ![s].balance = o.newBalance]
             /\ Return(s, [o EXCEPT !.inserted = TRUE], "success", FALSE)
        ELSE /\ transactions' = transactions
             /\ profile' = profile
             /\ Return(s, [o EXCEPT !.failed = TRUE], "error", FALSE)
  /\ UNCHANGED <<profiles, user, component, fetching, initial>>

\* --------------------------------------------------------- Profile page

\* "Edit Profile": setIsEditing(true); the card is rendered once the profile
\* is loaded.
EditProfile(s) ==
  /\ component[s] = "Profile"
  /\ profile[s].loaded
  /\ ~isEditing[s]
  /\ isEditing' = [isEditing EXCEPT ![s] = TRUE]
  /\ saved' = "none"
  /\ signOut' = "none"
  /\ last' = NoOp
  /\ UNCHANGED <<profiles, transactions, user, component, profile, fetching,
                 isLoading, pc, op, view, hist>>

\* handleSaveProfile sending the whole cached profile merged with the form,
\* cached balance included, instead of the three edited columns.
handleSaveProfile_WholeRow(s, account_type, ok) ==
  /\ component[s] = "Profile"
  /\ isEditing[s]
  /\ profile[s].loaded
  /\ LET good == ok /\ AccountTypeAccepted(account_type)
     IN /\ profiles' = IF good
                       THEN UpdateBalance(
                              UpdateAccountType(profiles, user[s], account_type),
                              user[s], profile[s].balance)
                       ELSE profiles
        /\ profile' = IF good
                      THEN [profile EXCEPT ![s].account_type = account_type]
                      ELSE profile
        /\ isEditing' = [isEditing EXCEPT ![s] = ~good]
        /\ saved' = IF good THEN "success" ELSE "error"
        /\ signOut' = "none"
  /\ last' = NoOp
  /\ UNCHANGED <<transactions, user, component, fetching, isLoading, pc, op,
                 view, hist>>

\* handleSaveProfile with the account type chosen in the form: the update
\* of the edited columns, then setProfile({...profile, ...editForm}),
\* setIsEditing(false) and the Success toast, or the Error toast alone.
handleSaveProfile(s, account_type, ok) ==
  /\ component[s] = "Profile"
  /\ isEditing[s]
  /\ profile[s].loaded
  /\ LET good == ok /\ AccountTypeAccepted(account_type)
     IN /\ profiles' = IF good
                       THEN UpdateAccountType(profiles, user[s], account_type)
                       ELSE profiles
        /\ profile' = IF good
                      THEN [profile EXCEPT ![s].account_type = account_type]
                      ELSE profile
        /\ isEditing' = [isEditing EXCEPT ![s] = ~good]
        /\ saved' = IF good THEN "success" ELSE "error"
        /\ signOut' = "none"
  /\ last' = NoOp
  /\ UNCHANGED <<transactions, user, component, fetching, isLoading, pc, op,
                 view, hist>>

\* handleCancelEdit: the form is reset from the cached profile,
\* setIsEditing(false).
handleCancelEdit(s) ==
  /\ component[s] = "Profile"
  /\ isEditing[s]
  /\ isEditing' = [isEditing EXCEPT ![s] = FALSE]
  /\ saved' = "none"
  /\ signOut' = "none"
  /\ last' = NoOp
  /\ UNCHANGED <<profiles, transactions, user, component, profile, fetching,
                 isLoading, pc, op, view, hist>>

\* -------------------------------------------------------- history lists

\* .from('transactions').select('*').eq('user_id', u): the rows of one user
\* (the SELECT policy admits no others).
SelectTransactions(u) ==
  {transactions[i] : i \in {j \in DOMAIN transactions :
                                transactions[j].user_id = u}}

\* An order with ascending: true.
OrderByCreatedAt_Ascending(rows) ==
  [i \in 1..Cardinality(rows) |->
     CHOOSE r \in rows :
       Cardinality({q \in rows : q.created_at < r.created_at}) = i - 1]

\* .order('created_at', {ascending: false}): the row at position i has
\* i - 1 newer rows.
OrderByCreatedAt(rows) ==
  [i \in 1..Cardinality(rows) |->
     CHOOSE r \in rows :
       Cardinality({q \in rows : q.created_at > r.created_at}) = i - 1]

\* .limit(n)
Limit(rows, n) == SubSeq(rows, 1, IF Len(rows) < n THEN Len(rows) ELSE n)

\* A step of a history list: nothing else changes.
OnlyView ==
  /\ saved' = "none"
  /\ signOut' = "none"
  /\ last' = NoOp
  /\ UNCHANGED <<profiles, transactions, user, component, profile, fetching,
                 isLoading, pc, op, isEditing, hist>>

\* pages/Dashboard fetchTransactions: the 10 newest rows of the user; on
\* error the list is left as it is.
Dashboard_fetchTransactions(s, ok) ==
  /\ component[s] = "PagesDashboard"
  /\ user[s] # "null"
  /\ view' = IF ok
             THEN [view EXCEPT ![s] =
                     Limit(OrderByCreatedAt(SelectTransactions(user[s])),
                           HistoryLimit)]
             ELSE view
  /\ OnlyView

\* TransactionHistory fetchTransactions, under the dashboard that hosts
\* BankingOperations: the same query.
TransactionHistory_fetchTransactions(s, ok) ==
  /\ component[s] = "BankingOperations"
  /\ user[s] # "null"
  /\ view' = IF ok
             THEN [view EXCEPT ![s] =
                     Limit(OrderByCreatedAt(SelectTransactions(user[s])),
                           HistoryLimit)]
             ELSE view
  /\ OnlyView

\* pages/Transactions fetchTransactions: the query without a limit.
Transactions_fetchTransactions(s, ok) ==
  /\ component[s] = "Transactions"
  /\ user[s] # "null"
  /\ view' = IF ok
             THEN [view EXCEPT ![s] =
                     OrderByCreatedAt(SelectTransactions(user[s]))]
             ELSE view
  /\ OnlyView

\* The summary cards of pages/Transactions, computed from the list the page
\* holds.
TotalTransactions(s) == Len(view[s])

TotalDeposits(s) ==
  Len(SelectSeq(view[s], LAMBDA t : t.transaction_type = "deposit"))

TotalWithdrawals(s) ==
  Len(SelectSeq(view[s], LAMBDA t : t.transaction_type = "withdrawal"))

\* ------------------------------------------------------ specification

Next ==
  \/ \E u \in Users : \E b \in SignUps(u) : handle_new_user(u, b)
  \/ \E s \in Sessions : \E u \in SignIns(s), c \in Mounts(s) :
        useEffect_user(s, u, c)
  \/ \E s \in Sessions, ok \in BOOLEAN : fetchProfile(s, ok)
  \/ \E s \in Sessions : Retry(s)
  \/ \E s \in Sessions, str \in AmountInputs : handleDepositSubmit(s, str, "")
  \/ \E s \in Sessions, str \in AmountInputs : handleWithdrawSubmit(s, str, "")
  \/ \E s \in Sessions, ok \in BOOLEAN : handleTransaction_select(s, ok)
  \/ \E s \in Sessions, ok \in BOOLEAN : handleTransaction_update(s, ok)
  \/ \E s \in Sessions, ok \in BOOLEAN : handleTransaction_insert(s, ok)
  \/ \E s \in Sessions, str \in AmountInputs : handleDeposit(s, str)
  \/ \E s \in Sessions, str \in AmountInputs : handleWithdraw(s, str)
  \/ \E s \in Sessions, ok \in BOOLEAN : Dashboard_update(s, ok)
  \/ \E s \in Sessions, ok \in BOOLEAN : Dashboard_insert(s, ok)
  \/ \E s \in Sessions : EditProfile(s)
  \/ \E s \in Sessions, t \in AccountTypeInputs, ok \in BOOLEAN :
        handleSaveProfile(s, t, ok)
  \/ \E s \in Sessions : handleCancelEdit(s)

Spec == Init /\ [][Next]_vars

\* The same program in runs where every store call succeeds.
NextReliable ==
  \/ \E u \in Users : \E b \in SignUps(u) : handle_new_user(u, b)
  \/ \E s \in Sessions : \E u \in SignIns(s), c \in Mounts(s) :
        useEffect_user(s, u, c)
  \/ \E s \in Sessions : fetchProfile(s, TRUE)
  \/ \E s \in Sessions, str \in AmountInputs : handleDepositSubmit(s, str, "")
  \/ \E s \in Sessions, str \in AmountInputs : handleWithdrawSubmit(s, str, "")
  \/ \E s \in Sessions : handleTransaction_select(s, TRUE)
  \/ \E s \in Sessions : handleTransaction_update(s, TRUE)
  \/ \E s \in Sessions : handleTransaction_insert(s, TRUE)
  \/ \E s \in Sessions, str \in AmountInputs : handleDeposit(s, str)
  \/ \E s \in Sessions, str \in AmountInputs : handleWithdraw(s, str)
  \/ \E s \in Sessions : Dashboard_update(s, TRUE)
  \/ \E s \in Sessions : Dashboard_insert(s, TRUE)
  \/ \E s \in Sessions : EditProfile(s)
  \/ \E s \in Sessions, t \in AccountTypeInputs : handleSaveProfile(s, t, TRUE)
  \/ \E s \in Sessions : handleCancelEdit(s)

SpecReliable == Init /\ [][NextReliable]_vars

\* Every request is answered: the code behind an await runs once the store
\* has replied. What the user does (sign in, submit, edit) is under no
\* fairness condition.
Answered ==
  \A s \in Sessions :
    /\ WF_vars(fetchProfile(s, TRUE))
    /\ WF_vars(handleTransaction_select(s, TRUE))
    /\ WF_vars(handleTransaction_update(s, TRUE))
    /\ WF_vars(handleTransaction_insert(s, TRUE))
    /\ WF_vars(Dashboard_update(s, TRUE))
    /\ WF_vars(Dashboard_insert(s, TRUE))

\* The reliable store with every request answered.
SpecAnswered == SpecReliable /\ Answered

\* The deposit / withdraw flow with a reliable store, one amount and the
\* description field of BankingOperations left empty or filled in.
NextMemo ==
  \/ \E u \in Users : \E b \in SignUps(u) : handle_new_user(u, b)
  \/ \E s \in Sessions : \E u \in SignIns(s), c \in Components \ {"Profile"} :
        useEffect_user(s, u, c)
  \/ \E s \in Sessions : fetchProfile(s, TRUE)
  \/ \E s \in Sessions, description \in MemoInputs :
        handleDepositSubmit(s, "1", description)
  \/ \E s \in Sessions, description \in MemoInputs :
        handleWithdrawSubmit(s, "1", description)
  \/ \E s \in Sessions : handleTransaction_select(s, TRUE)
  \/ \E s \in Sessions : handleTransaction_update(s, TRUE)
  \/ \E s \in Sessions : handleTransaction_insert(s, TRUE)
  \/ \E s \in Sessions : handleDeposit(s, "1")
  \/ \E s \in Sessions : handleWithdraw(s, "1")
  \/ \E s \in Sessions : Dashboard_update(s, TRUE)
  \/ \E s \in Sessions : Dashboard_insert(s, TRUE)

SpecMemo == Init /\ [][NextMemo]_vars

\* The deposit / withdraw flow with a reliable store and one amount, and the
\* users signing out and in again; the auth backend may refuse a sign-out.
NextSignOut ==
  \/ \E u \in Users : \E b \in SignUps(u) : handle_new_user(u, b)
  \/ \E s \in Sessions : \E u \in SignIns(s), c \in Components \ {"Profile"} :
        useEffect_user(s, u, c)
  \/ \E s \in Sessions : fetchProfile(s, TRUE)
  \/ \E s \in Sessions : handleDepositSubmit(s, "1", "")
  \/ \E s \in Sessions : handleWithdrawSubmit(s, "1", "")
  \/ \E s \in Sessions : handleTransaction_select(s, TRUE)
  \/ \E s \in Sessions : handleTransaction_update(s, TRUE)
  \/ \E s \in Sessions : handleTransaction_insert(s, TRUE)
  \/ \E s \in Sessions : handleDeposit(s, "1")
  \/ \E s \in Sessions : handleWithdraw(s, "1")
  \/ \E s \in Sessions : Dashboard_update(s, TRUE)
  \/ \E s \in Sessions : Dashboard_insert(s, TRUE)
  \/ \E s \in Sessions, ok \in BOOLEAN : handleSignOut(s, ok)

SpecSignOut == Init /\ [][NextSignOut]_vars

\* The rows that deposits of 1 by the users w[1], w[2], ... leave behind,
\* each user starting from balance 0.
DepositRows(w) ==
  [i \in DOMAIN w |->
     [user_id |-> w[i], amount |-> 1, transaction_type |-> "deposit",
      balance_after |-> Cardinality({j \in 1..i : w[j] = w[i]}),
      description |-> "Deposit transaction", created_at |-> i]]

\* The rows that the users w[1], w[2], ... leave behind when each of them,
\* starting from balance 0, deposits 1 and withdraws 1 in turn.
AlternatingRows(w) ==
  [i \in DOMAIN w |->
     LET k == Cardinality({j \in 1..i : w[j] = w[i]})
     IN IF k % 2 = 1
        THEN [user_id |-> w[i], amount |-> 1, transaction_type |-> "deposit",
              balance_after |-> 1, description |-> "Deposit transaction",
              created_at |-> i]
        ELSE [user_id |-> w[i], amount |-> 1, transaction_type |-> "withdraw",
              balance_after |-> 0, description |-> "Withdrawal transaction",
              created_at |-> i]]

\* The balance the rows leave a user with: the balance_after of the user's
\* newest row, 0 without rows.
BalanceAfterRows(rows, u) ==
  LET mine == SelectSeq(rows, LAMBDA r : r.user_id = u)
  IN IF mine = <<>> THEN 0 ELSE mine[Len(mine)].balance_after

\* The history lists are read on tables of up to MaxRows rows: both users
\* have made deposits of 1, or deposits and withdrawals of 1 in turn, are
\* signed in (s1 as u1, s2 as u2) on a page that shows a list and have
\* loaded their profile; the history variables count from this state on.
InitHistory ==
  /\ \E n \in 0..MaxRows : \E w \in [1..n -> Users] :
        /\ transactions \in {DepositRows(w), AlternatingRows(w)}
        /\ profiles = [u \in Users |->
                         [balance |-> BalanceAfterRows(transactions, u),
                          account_type |-> "savings"]]
  /\ user = [s \in Sessions |-> IF s = "s1" THEN "u1" ELSE "u2"]
  /\ component \in [Sessions -> HistoryPages]
  /\ profile = [s \in Sessions |->
                  [loaded |-> TRUE, balance |-> profiles[user[s]].balance,
                   account_type |-> "savings"]]
  /\ fetching = [s \in Sessions |-> FALSE]
  /\ isLoading = [s \in Sessions |-> FALSE]
  /\ pc = [s \in Sessions |-> "idle"]
  /\ op = [s \in Sessions |-> NoOp]
  /\ isEditing = [s \in Sessions |-> FALSE]
  /\ view = [s \in Sessions |-> <<>>]
  /\ saved = "none"
  /\ signOut = "none"
  /\ last = NoOp
  /\ started = 0
  /\ succeeded = [u \in Users |-> 0]
  /\ credited = [u \in Users |-> 0]
  /\ initial = [u \in Users |-> profiles[u].balance]
  /\ overlap = FALSE

NextHistory ==
  \/ \E s \in Sessions, ok \in BOOLEAN : Dashboard_fetchTransactions(s, ok)
  \/ \E s \in Sessions, ok \in BOOLEAN :
        TransactionHistory_fetchTransactions(s, ok)
  \/ \E s \in Sessions, ok \in BOOLEAN : Transactions_fetchTransactions(s, ok)

SpecHistory == InitHistory /\ [][NextHistory]_vars

TypeOK ==
  /\ DOMAIN profiles \subseteq Users
  /\ \A s \in Sessions : pc[s] \in {"idle", "select", "update", "insert"}
  /\ started <= MaxOps

\* ------------------------------------------------------------ properties

Quiescent == \A s \in Sessions : pc[s] = "idle"

\* The transaction rows of one user, in creation order.
Records(u) == SelectSeq(transactions, LAMBDA r : r.user_id = u)

\* Fold of the signed amounts of a sequence of rows over 0.
RECURSIVE Replay(_)
Replay(rows) ==
  IF rows = <<>> THEN 0
  ELSE Replay(SubSeq(rows, 1, Len(rows) - 1))
         + Signed(rows[Len(rows)].transaction_type, rows[Len(rows)].amount)

Finished == last.outcome # "running"

\* The stored balance of a user; NaN where there is no row.
StoredBalance(u) == IF u \in DOMAIN profiles THEN profiles[u].balance ELSE NaN

\* The balances the rows of public.profiles can hold within MaxOps
\* operations of amount at most 1.
BalanceRange == (0 - MaxOps)..(MaxOps + 1)

\* Every amount that has reached a table or is on its way there is positive.
PositiveAmounts ==
  /\ \A i \in DOMAIN transactions : transactions[i].amount > 0
  /\ \A s \in Sessions : pc[s] # "idle" => op[s].amount > 0

\* C1 Concurrency safety: when overlapping deposits of one amount a > 0 on one
\* user have all reported success, the stored balance is the initial balance
\* plus N*a and the user has exactly N transaction rows, N the number of
\* successes.
C1_ConcurrencySafety ==
  \A u \in DOMAIN profiles : \A a \in {parseFloat(str) : str \in AmountInputs} :
    ( /\ a > 0
      /\ Quiescent /\ overlap
      /\ started = succeeded[u]
      /\ \A i \in DOMAIN Records(u) :
           Records(u)[i].transaction_type = "deposit" /\ Records(u)[i].amount = a )
    => /\ profiles[u].balance = initial[u] + succeeded[u] * a
       /\ Len(Records(u)) = succeeded[u]

\* C2 Conservation: after operations with positive amounts that ran one
\* after another, the stored balance is the initial balance plus the signed
\* amounts of the operations that reported success.
C2_Conservation ==
  \A u \in DOMAIN profiles :
    (Quiescent /\ ~overlap /\ PositiveAmounts)
    => profiles[u].balance = initial[u] + credited[u]

\* C3 The stored balance of every user is never negative.
C3_BalanceNonNegative ==
  \A u \in DOMAIN profiles : profiles[u].balance >= 0

\* C4 Replay invariant: with no operation in flight, folding the signed
\* amounts of a user's transaction rows over 0 gives the stored balance.
C4_ReplayInvariant ==
  \A u \in DOMAIN profiles :
    Quiescent => Replay(Records(u)) = profiles[u].balance

\* C5 Log agreement: right after an operation reports success, balance_after
\* of the user's newest transaction row equals the stored balance (all
\* amounts positive).
C5_LogAgreement ==
  (last.outcome = "success" /\ PositiveAmounts) =>
    /\ Records(last.owner) # <<>>
    /\ Records(last.owner)[Len(Records(last.owner))].balance_after
         = profiles[last.owner].balance

\* C6 No-overdraft: a withdrawal of a positive amount that is decided on the
\* funds is accepted (balance written, row appended) exactly when the amount
\* is at most the stored balance at the time of the request.
C6_NoOverdraft ==
  ( /\ last.type = "withdraw"
    /\ last.amount > 0
    /\ last.outcome \in {"success", "insufficient"} )
  => /\ (last.outcome = "success") <=> (last.amount <= last.atRequest)
     /\ (last.outcome = "success") => (last.written /\ last.inserted)

\* C7 Idempotent rejection: a request with amount <= 0 ends with the
\* validation error and has made no store call at all.
C7_IdempotentRejection ==
  (Finished /\ last.amount # NaN /\ last.amount <= 0)
  => /\ last.outcome = "invalid"
     /\ last.reads = 0 /\ last.writes = 0 /\ last.inserts = 0

\* C8 A withdrawal rejected for insufficient funds is rejected after the
\* balance read and before any write, and leaves both tables unchanged.
C8_InsufficientFundsFrame ==
  [][ last'.outcome = "insufficient"
      => /\ last'.reads = 1
         /\ last'.writes = 0 /\ last'.inserts = 0
         /\ profiles' = profiles /\ transactions' = transactions ]_vars

\* C9 An operation that reports success has issued exactly one balance write
\* and exactly one log insert; a rejected operation (validation error or
\* insufficient funds) has issued no write and no insert and has changed
\* neither table.
C9_WritesPerOutcome ==
  [][ /\ last'.outcome = "success"
         => /\ last'.writes = 1 /\ last'.inserts = 1
            /\ Len(transactions') = Len(transactions) + 1
      /\ last'.outcome \in {"invalid", "insufficient"}
         => /\ last'.writes = 0 /\ last'.inserts = 0
            /\ profiles' = profiles /\ transactions' = transactions ]_vars

\* A withdrawal was rejected on the balance it read, after an earlier
\* operation of the same user had succeeded.
C9_Witness ==
  /\ last.outcome = "insufficient"
  /\ last.reads = 1
  /\ succeeded[last.owner] = 1

\* C10 No operation ends with its balance write persisted (the stored balance
\* differs from the one at the request) and without its transaction row,
\* unless it ends in the Reconciliation outcome.
C10_NoOrphanBalanceWrite ==
  ( /\ Finished
    /\ last.amount > 0
    /\ last.written /\ ~last.inserted
    /\ profiles[last.owner].balance # last.atRequest )
  => last.outcome = "reconciliation"

\* C11 An operation one of whose store calls returned an error ends with the
\* error toast and not with success, and its success callback does not run:
\* no fetchProfile is started and the cached profile is not replaced.
C11_NoSuccessAfterStoreError ==
  [][ last'.failed
      => /\ last'.outcome = "error"
         /\ fetching' = fetching
         /\ profile' = profile ]_vars

\* The log insert failed after the balance write had succeeded.
C11_Witness ==
  /\ last.failed
  /\ last.written
  /\ last.inserts = 1
  /\ last.outcome = "error"

\* C12 Mutations of one user are serialized: when the balance write of one
\* operation takes effect, no other operation of the same user is between
\* its balance read and its log insert (all amounts positive).
C12_Serialized ==
  [][ \A s \in Sessions :
        ( /\ pc[s] = "update" /\ pc'[s] = "insert"
          /\ PositiveAmounts )
        => \A t \in Sessions \ {s} :
             ~(pc[t] \in {"update", "insert"} /\ op[t].owner = op[s].owner) ]_vars

\* C13 Every inserted row carries the stored balance of its user at the
\* moment of the insert, and its balance_after is the balance_after of the
\* user's preceding row plus the signed amount (all amounts positive).
C13_BalanceAfterChain ==
  [][ (Len(transactions') = Len(transactions) + 1 /\ PositiveAmounts)
      => LET r == transactions'[Len(transactions')]
             before == Records(r.user_id)
         IN /\ r.balance_after = profiles'[r.user_id].balance
            /\ before # <<>> =>
                 r.balance_after = before[Len(before)].balance_after
                                     + Signed(r.transaction_type, r.amount) ]_vars

\* C14 Every row of the transaction log has amount > 0.
C14_AmountsPositive ==
  \A i \in DOMAIN transactions : transactions[i].amount > 0

C16_AppendOnly ==
  [][ /\ Len(transactions') >= Len(transactions)
      /\ SubSeq(transactions', 1, Len(transactions)) = transactions ]_vars

\* A second row of the same user was appended behind the first.
C16_Witness ==
  /\ Len(transactions) = 2
  /\ transactions[1].user_id = transactions[2].user_id

\* C17 The stored balance changes only in the balance write of a deposit or
\* withdraw; a profile save, accepted or refused, leaves every stored
\* balance and the transaction log unchanged; no step removes a profile row.
C17_BalanceOnlyByMutationFlow ==
  [][ /\ DOMAIN profiles \subseteq DOMAIN profiles'
      /\ \A u \in DOMAIN profiles :
           profiles'[u].balance # profiles[u].balance
           => \E s \in Sessions :
                pc[s] = "update" /\ pc'[s] = "insert" /\ op[s].owner = u
      /\ saved' # "none"
         => /\ transactions' = transactions
            /\ \A u \in DOMAIN profiles :
                 profiles'[u].balance = profiles[u].balance ]_vars

\* A profile save changed the account type of a user whose balance a
\* deposit or withdraw had changed after the Profile page loaded it.
C17_Witness ==
  /\ saved = "success"
  /\ \E s \in Sessions :
       /\ component[s] = "Profile"
       /\ profiles[user[s]].account_type = "current"
       /\ profiles[user[s]].balance # profile[s].balance

\* C18 A history read delivers rows of the signed-in user only, newest first
\* by created_at; the dashboards' lists hold the 10 newest rows of the user,
\* or all of them when there are fewer, the Transactions page all rows.
C18_HistoryRead ==
  [][ \A s \in Sessions :
        view'[s] # view[s]
        => LET v == view'[s]
               mine == SelectTransactions(user[s])
               n == Cardinality(mine)
           IN /\ \A i \in DOMAIN v : v[i] \in mine
              /\ \A i, j \in DOMAIN v : i < j => v[i].created_at > v[j].created_at
              /\ \A r \in mine :
                   (\A i \in DOMAIN v : v[i] # r)
                   => \A i \in DOMAIN v : v[i].created_at > r.created_at
              /\ Len(v) = IF component[s] = "Transactions" \/ n < HistoryLimit
                          THEN n ELSE HistoryLimit ]_vars

\* A dashboard list holds 10 rows of a user who has more, while the table
\* also holds rows of the other user.
C18_Witness ==
  \E s \in Sessions :
    /\ component[s] = "PagesDashboard"
    /\ Len(view[s]) = HistoryLimit
    /\ Cardinality(SelectTransactions(user[s])) > HistoryLimit

\* C19 The description of an inserted row is the description of the request
\* when that is not empty, and otherwise the default built from the kind:
\* "Deposit transaction" for a deposit, "Withdraw transaction" or
\* "Withdrawal transaction" for a withdraw.
C19_MemoDefault ==
  [][ Len(transactions') = Len(transactions) + 1
      => LET r == transactions'[Len(transactions')]
         IN IF last'.description # ""
            THEN r.description = last'.description
            ELSE IF r.transaction_type = "deposit"
            THEN r.description = "Deposit transaction"
            ELSE r.description \in {"Withdraw transaction",
                                    "Withdrawal transaction"} ]_vars

\* C20 The balance an operation writes is the balance it read from the store
\* in that same operation plus the signed amount (positive amounts).
C20_ComputedFromStoreRead ==
  (Finished /\ last.writes = 1 /\ last.amount > 0)
  => /\ last.reads = 1
     /\ last.newBalance = last.readBalance + Signed(last.type, last.amount)

\* C21 Within one operation the calls come in the order balance read, funds
\* check, balance write, log insert, outcome: a handler waiting to write has
\* made no write yet, has passed the funds check and, in handleTransaction,
\* has read the balance; a handler waiting to insert has had its one write
\* returned without error; success is reported only with the insert returned
\* without error.
C21_CallOrder ==
  /\ \A s \in Sessions :
       /\ pc[s] = "select"
          => op[s].reads = 0 /\ op[s].writes = 0 /\ op[s].inserts = 0
       /\ pc[s] = "update"
          => /\ op[s].writes = 0 /\ op[s].inserts = 0 /\ ~op[s].failed
             /\ op[s].entry \in {"handleDepositSubmit", "handleWithdrawSubmit"}
                => op[s].reads = 1
             /\ op[s].type = "withdraw" => ~JsLt(op[s].newBalance, 0)
       /\ pc[s] = "insert"
          => op[s].writes = 1 /\ op[s].inserts = 0 /\ ~op[s].failed
  /\ last.outcome = "success"
     => /\ last.writes = 1 /\ last.inserts = 1
        /\ last.inserted /\ ~last.failed

\* A withdraw of handleTransaction has read the balance, passed the funds
\* check, written, and waits for its log insert.
C21_Witness ==
  \E s \in Sessions :
    /\ pc[s] = "insert"
    /\ op[s].type = "withdraw"
    /\ op[s].reads = 1
    /\ op[s].written

\* C22 After an operation of a session has reported success, the balance the
\* session's page holds eventually equals the stored balance of the user,
\* unless the stored balance is changed again after the report (all amounts
\* positive).
C22_EventualRefresh ==
  \A s \in Sessions : \A b \in BalanceRange :
    ( /\ last.outcome = "success" /\ last.sess = s
      /\ PositiveAmounts
      /\ StoredBalance(last.owner) = b )
    ~> ( \/ profile[s].balance = StoredBalance(user[s])
         \/ StoredBalance(user[s]) # b )

\* C23 Every exit of handleTransaction, handleDeposit and handleWithdraw is an
\* outcome of the handler and leaves the processing flag false: a session
\* that is in no handler has the flag false, and the session of the handler
\* that has just finished, whatever its outcome, is in no handler.
C23_FlagCleared ==
  /\ \A s \in Sessions : pc[s] = "idle" => ~isLoading[s]
  /\ Finished
     => /\ last.outcome \in {"none", "invalid", "insufficient", "error",
                            "success"}
        /\ pc[last.sess] = "idle"
        /\ ~isLoading[last.sess]
        /\ last.failed => last.outcome = "error"

\* The balance write of pages/Dashboard failed and the handler has returned.
C23_Witness ==
  /\ last.entry \in {"handleDeposit", "handleWithdraw"}
  /\ last.failed
  /\ last.writes = 1
  /\ last.inserts = 0
  /\ ~isLoading[last.sess]
\* C24 A balance write of handleTransaction never takes effect against a
\* concurrent modification: the balance it writes is computed from the
\* balance the store holds at the write, the operation having gone back to
\* the balance read, or ended in an error, where the stored balance is no
\* longer the one it read (all amounts positive).
C24_WriteFromFreshBalance ==
  [][ \A s \in Sessions :
        ( /\ pc[s] = "update" /\ pc'[s] = "insert"
          /\ op[s].entry \in {"handleDepositSubmit", "handleWithdrawSubmit"}
          /\ op[s].owner \in DOMAIN profiles
          /\ PositiveAmounts )
        => /\ profiles[op[s].owner].balance = op[s].readBalance
           /\ profiles'[op[s].owner].balance
                = profiles[op[s].owner].balance
                  + Signed(op[s].type, op[s].amount) ]_vars
\* C25 Every row has kind deposit or withdraw, and on the Transactions page
\* "Total Deposits" is the number of listed rows of kind deposit, "Total
\* Withdrawals" the number of listed rows of kind withdraw, and the two
\* counts add up to "Total Transactions".
C25_SummaryCounts ==
  /\ \A i \in DOMAIN transactions :
       transactions[i].transaction_type \in {"deposit", "withdraw"}
  /\ \A s \in Sessions :
       component[s] = "Transactions"
       => /\ TotalDeposits(s)
              = Len(SelectSeq(view[s],
                              LAMBDA t : t.transaction_type = "deposit"))
          /\ TotalWithdrawals(s)
              = Len(SelectSeq(view[s],
                              LAMBDA t : t.transaction_type = "withdraw"))
          /\ TotalDeposits(s) + TotalWithdrawals(s) = TotalTransactions(s)
\* C26 Every stored account_type is savings or current; a profile save with
\* the option 'fixed' leaves the stored rows as they are, shows the Error
\* toast, and leaves the displayed profile and edit mode as they are.
C26_FixedRefused ==
  [][ /\ \A u \in DOMAIN profiles' :
           profiles'[u].account_type \in {"savings", "current"}
      /\ \A s \in Sessions, ok \in BOOLEAN :
           handleSaveProfile(s, "fixed", ok)
           => /\ saved' = "error"
              /\ profiles' = profiles
              /\ profile' = profile
              /\ isEditing'[s] ]_vars

\* With every store call answered, a save was refused: the form is still in
\* edit mode and the stored type is the one shown.
C26_Witness ==
  /\ saved = "error"
  /\ \E s \in Sessions :
       /\ component[s] = "Profile"
       /\ isEditing[s]
       /\ profiles[user[s]].account_type = profile[s].account_type
\* C27 In one mounted component at most one deposit / withdraw handler is in
\* flight: a handler between its store calls holds the processing flag, and
\* a run of handleDepositSubmit, handleWithdrawSubmit, handleDeposit or
\* handleWithdraw starts only in a session with no handler in flight and the
\* flag false.
C27_OneInFlight ==
  [][ \A s \in Sessions :
        /\ pc'[s] # "idle" => isLoading'[s]
        /\ (\E str \in AmountInputs :
              \/ handleDepositSubmit(s, str, "")
              \/ handleWithdrawSubmit(s, str, "")
              \/ handleDeposit(s, str)
              \/ handleWithdraw(s, str))
           => pc[s] = "idle" /\ ~isLoading[s] ]_vars

\* A second operation of a session runs after its first has reported
\* success.
C27_Witness ==
  \E s \in Sessions :
    /\ pc[s] = "update"
    /\ isLoading[s]
    /\ op[s].sess = s
    /\ succeeded[op[s].owner] = 1
    /\ started = 2
    /\ \A t \in Sessions \ {s} : user[t] = "null"
\* C28 A request whose amount text parses to NaN is turned down by the
\* checks of the handler: it ends as invalid, as insufficient or with the
\* silent return, with no balance write and no log insert issued.
C28_NaNRejectedBeforeWrite ==
  (Finished /\ last.amount = NaN)
  => /\ last.outcome \in {"invalid", "insufficient", "none"}
     /\ last.writes = 0
     /\ last.inserts = 0
\* C29 A page is left for /auth only by a sign-out that the auth backend
\* answered without error, the session then being gone; a sign-out answered
\* with an error shows the Error toast and leaves the session and the page
\* as they are; no sign-out changes a profile row or a transaction row.
C29_SignOut ==
  [][ /\ \A s \in Sessions :
           /\ (component[s] # "none" /\ component'[s] = "none")
              => signOut' = "navigated" /\ user'[s] = "null"
           /\ handleSignOut(s, FALSE)
              => signOut' = "error" /\ user' = user /\ component' = component
           /\ handleSignOut(s, TRUE)
              => signOut' = "navigated" /\ component'[s] = "none"
      /\ signOut' # "none"
         => profiles' = profiles /\ transactions' = transactions ]_vars

\* A sign-out was refused after a deposit of the user had gone through: the
\* user is still signed in on the page.
C29_Witness ==
  /\ signOut = "error"
  /\ \E s \in Sessions :
       /\ user[s] # "null"
       /\ component[s] # "none"
       /\ succeeded[user[s]] > 0
====
